---- MODULE Spec2Model ----
(***************************************************************************)
(* Trip planner backend (Directions + Places): the two request handlers    *)
(* GET /api/discover-stops and POST /api/final-route, with the geometry    *)
(* helpers they use.                                                       *)
(*                                                                         *)
(* Conventions of the model                                                *)
(*  - A JavaScript value that may be null / undefined / NaN is a sequence: *)
(*    NULL (the empty sequence) when it is absent, <<v>> when it is v.     *)
(*  - Coordinates are kept in the polyline's own unit, 1e-5 degree, as     *)
(*    integers (the source divides by 1e5 when it stores them).  All       *)
(*    points of the model lie on one meridian (lng = 0), where the         *)
(*    haversine distance is exactly R * |dLat|.                            *)
(*  - Ratings are kept in tenths (45 is a rating of 4.5).                  *)
(*  - Scores are kept in 1/10000: rating10 * 1000*ln(1 + n) for the        *)
(*    quality, 5000 per detour minute for the penalty.                     *)
(*  - One request is processed from Init to its response; every provider   *)
(*    call is one step whose answer is chosen by the environment.          *)
(*  - Request and candidate fields that no handler decision reads (mode,   *)
(*    departure_time, searchRadiusMeters, name, address, photo_url, types) *)
(*    are left out.                                                        *)
(***************************************************************************)
EXTENDS Integers, Sequences, FiniteSets, TLC

NULL == <<>>
Some(v) == <<v>>
Val(x) == x[1]

(* ------------------------------ bounds --------------------------------- *)
\* days of the request range over 1..MaxDays
MaxDays == 2
\* the places provider knows the places 1..NumPlaces
NumPlaces == 3
\* a places query returns at most MaxResults places
MaxResults == 2
MaxSegments == 12
MaxPoints == 2
MaxCut == 2
MaxBatches == 2
MaxList == 3

(* ------------------------- generic helpers ----------------------------- *)
Min(a, b) == IF a <= b THEN a ELSE b
Max(a, b) == IF a >= b THEN a ELSE b
Abs(a) == IF a < 0 THEN -a ELSE a

RECURSIVE Pow2(_)
Pow2(n) == IF n = 0 THEN 1 ELSE 2 * Pow2(n - 1)

\* Math.round(num / den) for den > 0: floor(num/den + 1/2)
RoundDiv(num, den) == (2 * num + den) \div (2 * den)

\* Array.prototype.slice(0, n)
Slice(s, n) == SubSeq(s, 1, Min(n, Len(s)))

\* Array.prototype.reverse
Reverse(s) == [i \in 1..Len(s) |-> s[Len(s) + 1 - i]]

RECURSIVE SumSeq(_)
SumSeq(s) == IF s = <<>> THEN 0 ELSE Head(s) + SumSeq(Tail(s))

\* Array.prototype.sort(cmp) is stable: x is placed before the first
\* element it compares strictly below, elements comparing equal keep
\* their order.  Cmp(a, b) < 0 means a sorts before b.
StableSort(s, Cmp(_, _)) ==
  LET RECURSIVE Ins(_, _)
      Ins(x, t) ==
        IF t = <<>> THEN <<x>>
        ELSE IF Cmp(x, Head(t)) < 0 THEN <<x>> \o t
        ELSE <<Head(t)>> \o Ins(x, Tail(t))
      RECURSIVE Srt(_)
      Srt(t) ==
        IF t = <<>> THEN <<>>
        ELSE Ins(t[Len(t)], Srt(SubSeq(t, 1, Len(t) - 1)))
  IN Srt(s)

(* ----------------------- geometry and polyline ------------------------- *)
\* great-circle distance of two points of one meridian, in whole metres:
\* 6371e3 * (pi / 180) * 1e-5 = 1.1119 m per unit of latitude
haversineMeters(a, b) ==
  LET d == Abs(b.lat - a.lat) IN d + (d * 1119) \div 10000

\* str.charCodeAt(i) - 63, with i counted from 1; NaN (NULL) past the end
CharAt(str, i) == IF i <= Len(str) THEN Some(str[i] - 63) ELSE NULL

\* one do { ... } while (b >= 0x20) loop: returns the accumulated result
\* and the index after the group.  NaN & 0x1f is 0 and NaN >= 0x20 is false.
RECURSIVE ReadGroup(_, _, _, _)
ReadGroup(str, index, shift, result) ==
  LET b == CharAt(str, index)
      chunk == IF b = NULL THEN 0 ELSE Val(b) % 32
      r == result + chunk * Pow2(shift)
  IN IF b # NULL /\ Val(b) >= 32 THEN ReadGroup(str, index + 1, shift + 5, r)
     ELSE [result |-> r, index |-> index + 1]

\* the odd results negated instead of complemented
ZigZagDecode_Negate(result) ==
  IF result % 2 = 1 THEN -(result \div 2) ELSE result \div 2

\* (result & 1) ? ~(result >> 1) : (result >> 1)
ZigZagDecode(result) ==
  IF result % 2 = 1 THEN -(result \div 2) - 1 ELSE result \div 2

RECURSIVE DecodeFrom(_, _, _, _)
DecodeFrom(str, index, lat, lng) ==
  IF index > Len(str) THEN <<>>
  ELSE LET g1 == ReadGroup(str, index, 0, 0)
           lat2 == lat + ZigZagDecode(g1.result)
           g2 == ReadGroup(str, g1.index, 0, 0)
           lng2 == lng + ZigZagDecode(g2.result)
       IN <<[lat |-> lat2, lng |-> lng2]>> \o DecodeFrom(str, g2.index, lat2, lng2)

decodePolyline(str) == DecodeFrom(str, 1, 0, 0)

\* the provider's encoding of one signed delta
RECURSIVE EncodeChunks(_)
EncodeChunks(v) ==
  IF v >= 32 THEN <<(32 + (v % 32)) + 63>> \o EncodeChunks(v \div 32)
  ELSE <<v + 63>>

EncodeValue(d) == EncodeChunks(IF d < 0 THEN -(2 * d) - 1 ELSE 2 * d)

RECURSIVE EncodeFrom(_, _, _)
EncodeFrom(pts, lat, lng) ==
  IF pts = <<>> THEN <<>>
  ELSE EncodeValue(Head(pts).lat - lat) \o EncodeValue(Head(pts).lng - lng)
       \o EncodeFrom(Tail(pts), Head(pts).lat, Head(pts).lng)

encodePolyline(pts) == EncodeFrom(pts, 0, 0)

\* total length of a path
RECURSIVE PathLength(_)
PathLength(path) ==
  IF Len(path) <= 1 THEN 0
  ELSE haversineMeters(path[1], path[2]) + PathLength(Tail(path))

\* the loop with acc left as it is after an emission
RECURSIVE SampleFrom_NoReset(_, _, _, _)
SampleFrom_NoReset(path, i, acc, everyMeters) ==
  IF i > Len(path) THEN <<>>
  ELSE LET a == acc + haversineMeters(path[i - 1], path[i])
       IN IF a >= everyMeters
          THEN <<path[i]>> \o SampleFrom_NoReset(path, i + 1, a, everyMeters)
          ELSE SampleFrom_NoReset(path, i + 1, a, everyMeters)

\* the for loop of samplePath from vertex i on, acc metres after the last
\* emitted point
RECURSIVE SampleFrom(_, _, _, _)
SampleFrom(path, i, acc, everyMeters) ==
  IF i > Len(path) THEN <<>>
  ELSE LET a == acc + haversineMeters(path[i - 1], path[i])
       IN IF a >= everyMeters
          THEN <<path[i]>> \o SampleFrom(path, i + 1, 0, everyMeters)
          ELSE SampleFrom(path, i + 1, a, everyMeters)

\* the emitted points returned as they are, with no fallback point
samplePath_NoFallback(path, everyMeters) == SampleFrom(path, 2, 0, everyMeters)

\* path[Math.floor(path.length / 2)], indices counted from 1
samplePath(path, everyMeters) ==
  LET out == SampleFrom(path, 2, 0, everyMeters)
  IN IF Len(out) > 0 THEN out ELSE <<path[(Len(path) \div 2) + 1]>>

\* index (from 1) of the closest vertex, first occurrence on ties;
\* bestD starts at Infinity (NULL), below which every distance lies
RECURSIVE NearestFrom(_, _, _, _, _)
NearestFrom(path, pt, i, best, bestD) ==
  IF i > Len(path) THEN best
  ELSE LET d == haversineMeters(pt, path[i])
       IN IF bestD = NULL \/ d < Val(bestD)
          THEN NearestFrom(path, pt, i + 1, i, Some(d))
          ELSE NearestFrom(path, pt, i + 1, best, bestD)

nearestIndex(path, pt) == NearestFrom(path, pt, 1, 1, NULL)

(* ------------------------------ themes --------------------------------- *)
THEME_MAP ==
  [hikes      |-> [mode |-> "text", queries |-> <<"trailhead", "hiking area", "scenic trail">>],
   waterfalls |-> [mode |-> "text", queries |-> <<"waterfall">>],
   lakes      |-> [mode |-> "text", queries |-> <<"lake beach", "lakeside viewpoint">>],
   cafes      |-> [mode |-> "nearby", types |-> <<"cafe", "bakery">>],
   viewpoints |-> [mode |-> "text", queries |-> <<"scenic viewpoint", "lookout">>],
   parks      |-> [mode |-> "nearby", types |-> <<"park">>],
   food       |-> [mode |-> "nearby", types |-> <<"restaurant">>],
   museums    |-> [mode |-> "nearby", types |-> <<"museum">>]]

\* the categories or phrases the strategy loop of a known theme runs over
StrategyQueries(theme) ==
  LET cfg == THEME_MAP[theme]
  IN IF cfg.mode = "nearby" THEN cfg.types ELSE cfg.queries

(* ------------------------- the places provider ------------------------- *)
\* what the provider knows of its places (rating in tenths, latitude in
\* 1e-5 degree); the tables are read cyclically
ProviderRating == <<Some(45), NULL, Some(48), Some(50), Some(45), Some(0)>>
ProviderReviews == <<Some(100), Some(1000), Some(50), Some(10), Some(100), NULL>>
ProviderLat == <<Some(9000), Some(36000), NULL, Some(200000), Some(810000), Some(0)>>

Cyc(table, i) == table[((i - 1) % Len(table)) + 1]

\* one element of data.results as the provider sends it
RawPlace(i) ==
  [place_id |-> i, rating |-> Cyc(ProviderRating, i),
   user_ratings_total |-> Cyc(ProviderReviews, i),
   geometry |-> IF Cyc(ProviderLat, i) = NULL THEN NULL
                ELSE Some([lat |-> Val(Cyc(ProviderLat, i)), lng |-> 0])]

\* the mapping of a provider result to the common candidate shape
NormalizePlace(p) ==
  [place_id |-> p.place_id,
   rating |-> p.rating,
   user_ratings_total |-> IF p.user_ratings_total = NULL THEN 0 ELSE Val(p.user_ratings_total),
   location |-> p.geometry]

NormalizeAll(raw) == [i \in 1..Len(raw) |-> NormalizePlace(raw[i])]

InjectiveSeqs(S, n) ==
  {q \in UNION {[1..k -> S] : k \in 0..n} :
     \A i, j \in 1..Len(q) : i # j => q[i] # q[j]}

\* the place ids the places provider knows
VARIABLE world

\* the answers of one places query: the fetch is rejected, or it carries a
\* status and a result list
PlacesAnswers ==
  {[transport |-> "rejected", status |-> "", results |-> <<>>]}
  \cup {[transport |-> "ok", status |-> st, results |-> <<>>] :
          st \in {"ZERO_RESULTS", "OVER_QUERY_LIMIT", "REQUEST_DENIED"}}
  \cup {[transport |-> "ok", status |-> "OK",
         results |-> [i \in 1..Len(q) |-> RawPlace(q[i])]] :
          q \in InjectiveSeqs(world, MaxResults) \ {<<>>}}

\* what a helper throws: the rejection of its fetch, or its own Error
\* naming the provider status
FetchRejected == [source |-> "fetch", status |-> ""]
StatusError(source, status) == [source |-> source, status |-> status]

\* placesNearby / placesTextSearch after the fetch: the thrown error or the
\* normalised result list
PlacesThrows(ans) ==
  \/ ans.transport = "rejected"
  \/ ans.status # "OK" /\ ans.status # "ZERO_RESULTS"

PlacesError(ans) ==
  IF ans.transport = "rejected" THEN FetchRejected ELSE StatusError("Places", ans.status)

PlacesResult(ans) == NormalizeAll(ans.results)

(* ------------------------ the routing provider ------------------------- *)
\* the shapes of the base routes the provider can answer with
RoutePaths ==
  {<<[lat |-> 0, lng |-> 0]>>,
   <<[lat |-> 0, lng |-> 0], [lat |-> 18000, lng |-> 0], [lat |-> 36000, lng |-> 0]>>,
   <<[lat |-> 0, lng |-> 0], [lat |-> 810000, lng |-> 0]>>}

\* the answers to the base-route query: polyline is NULL when the answer
\* has no route or no overview polyline
BaseAnswers ==
  {[transport |-> "rejected", status |-> "", polyline |-> NULL]}
  \cup {[transport |-> "ok", status |-> st, polyline |-> NULL] :
          st \in {"OK", "ZERO_RESULTS", "NOT_FOUND", "OVER_QUERY_LIMIT"}}
  \cup {[transport |-> "ok", status |-> "OK", polyline |-> encodePolyline(pa)] :
          pa \in RoutePaths}

\* directionsAB after the fetch: throws unless the status is OK
DirectionsABThrows(ans) == ans.transport = "rejected" \/ ans.status # "OK"

DirectionsABError(ans) ==
  IF ans.transport = "rejected" THEN FetchRejected ELSE StatusError("Directions", ans.status)

\* the answers to one of the paired detour queries: a status and the sum of
\* the leg durations of routes[0] in seconds.  The durations are facts of
\* the road network: the direct route takes DirectSeconds, the route via
\* place i takes ViaSeconds(i); whether a query succeeds is not.
DirectSeconds == 600
ViaSecondsTable == <<690, 510, 600, 600, 1230, 630>>
ViaSeconds(i) == Cyc(ViaSecondsTable, i)

DetourAnswers(seconds) ==
  {[transport |-> "rejected", status |-> "", seconds |-> 0],
   [transport |-> "ok", status |-> "ZERO_RESULTS", seconds |-> 0],
   [transport |-> "ok", status |-> "OK", seconds |-> seconds]}

\* detourMinutes reporting a failed pair as a free detour
detourMinutes_ZeroOnFailure(base, withVia) ==
  IF base.status # "OK" \/ withVia.status # "OK" THEN Some(0)
  ELSE Some(Max(0, RoundDiv(withVia.seconds - base.seconds, 60)))

\* detourMinutes without the clamp at zero
detourMinutes_NoClamp(base, withVia) ==
  IF base.status # "OK" \/ withVia.status # "OK" THEN NULL
  ELSE Some(RoundDiv(withVia.seconds - base.seconds, 60))

\* the value detourMinutes returns once both answers are parsed
detourMinutes(base, withVia) ==
  IF base.status # "OK" \/ withVia.status # "OK" THEN NULL
  ELSE Some(Max(0, RoundDiv(withVia.seconds - base.seconds, 60)))

\* the answers to the final-route query: legs carry distance.value and
\* duration.value, waypoint_order is the provider's permutation
LegSets ==
  {<<>>,
   <<[distance |-> Some(1000), duration |-> Some(60)]>>,
   <<[distance |-> Some(1000), duration |-> Some(60)],
     [distance |-> NULL, duration |-> Some(30)],
     [distance |-> Some(500), duration |-> NULL]>>}

FinalAnswers ==
  {[transport |-> "rejected", status |-> "", message |-> NULL,
    polyline |-> NULL, legs |-> <<>>, waypoint_order |-> <<>>]}
  \cup {[transport |-> "ok", status |-> st, message |-> Some("provider message"),
         polyline |-> NULL, legs |-> <<>>, waypoint_order |-> <<>>] :
          st \in {"ZERO_RESULTS", "NOT_FOUND"}}
  \cup {[transport |-> "ok", status |-> "OK", message |-> NULL,
         polyline |-> Some("final"), legs |-> lg, waypoint_order |-> wo] :
          lg \in LegSets, wo \in {<<>>, <<0>>, <<1, 0>>, <<0, 1>>}}

(* ------------------------------ requests ------------------------------- *)
\* the theme lists a request may name; "castles" is not in THEME_MAP
ThemeLists ==
  {<<"cafes">>, <<"castles", "parks">>, <<"waterfalls", "food">>}

DiscoverRequests ==
  [kind : {"discover"},
   origin : {NULL, Some("A")},
   destination : {NULL, Some("B")},
   days : 1..MaxDays,
   themes : ThemeLists,
   perTheme : {3},
   perSamplePerTheme : {1, 2},
   selectedPlaceIds : {<<>>}]

FinalRequests ==
  [kind : {"final"},
   origin : {NULL, Some("A")},
   destination : {NULL, Some("B")},
   days : {1},
   themes : {<<>>},
   perTheme : {3},
   perSamplePerTheme : {1},
   selectedPlaceIds : InjectiveSeqs(1..NumPlaces, 2)]

\* the check forgetting the destination
MissingEnds_OriginOnly(r) == r.origin = NULL

\* !origin || !destination
MissingEnds(r) == r.origin = NULL \/ r.destination = NULL

\* Math.max(3, Math.min(40, Number(perTheme)))
perThemeCap(r) == Max(3, Min(40, r.perTheme))
\* Math.max(1, Math.min(5, Number(perSamplePerTheme)))
perSampleCap(r) == Max(1, Min(5, r.perSamplePerTheme))

\* the spacing without its upper clamp
everyMetersOf_NoUpperClamp(totalM, days) ==
  LET d == Max(1, days)
      targetSamples == Min(15 * d, 50)
  IN Max(15000, RoundDiv(totalM, targetSamples))

\* the sample spacing chosen from the route length and the days
everyMetersOf(totalM, days) ==
  LET d == Max(1, days)
      targetSamples == Min(15 * d, 50)
  IN Min(40000, Max(15000, RoundDiv(totalM, targetSamples)))

(* ------------------------------ ranking -------------------------------- *)
\* the comparator without its review-count term
QualityCmp_RatingOnly(a, b) ==
  (IF b.rating = NULL THEN 0 ELSE Val(b.rating))
    - (IF a.rating = NULL THEN 0 ELSE Val(a.rating))

\* (b.rating ?? 0) - (a.rating ?? 0) || (b.user_ratings_total - a.user_ratings_total)
QualityCmp(a, b) ==
  LET ra == IF a.rating = NULL THEN 0 ELSE Val(a.rating)
      rb == IF b.rating = NULL THEN 0 ELSE Val(b.rating)
  IN IF rb - ra # 0 THEN rb - ra ELSE b.user_ratings_total - a.user_ratings_total

\* 1000 * Math.log1p(n), rounded, for the review counts of the provider
Log1pMilli(n) ==
  CASE n = 0 -> 0
    [] n = 10 -> 2398
    [] n = 50 -> 3932
    [] n = 100 -> 4615
    [] n = 1000 -> 6909

\* (rating || 3) * Math.log1p(user_ratings_total || 0), in 1/10000
Quality(c) ==
  (IF c.rating = NULL \/ c.rating = Some(0) THEN 30 ELSE Val(c.rating))
    * Log1pMilli(c.user_ratings_total)

\* an absent detour ranked as the worst one instead of as no detour
Penalty_NullIsWorst(c) ==
  IF c.detourMinutes = NULL THEN 1000000 ELSE Val(c.detourMinutes) * 5000

\* (detourMinutes ?? 0) * 0.5, in 1/10000
Penalty(c) == IF c.detourMinutes = NULL THEN 0 ELSE Val(c.detourMinutes) * 5000

Score(c) == Quality(c) - Penalty(c)

\* the comparator of the re-rank: (qb - pb) - (qa - pa)
RankCmp(a, b) == Score(b) - Score(a)

\* list.sort(cmp).reverse()
ReRank(list) == Reverse(StableSort(list, RankCmp))

\* the merge of the kept results of one (sample, theme) pair into the
\* theme's Map, which keeps insertion order
HasPlace(map, id) == \E i \in 1..Len(map) : map[i].place_id = id

\* the merge test without the duplicate check
ShouldInsert_NoDedup(map, p) == p.location # NULL

\* the merge test without the location check
ShouldInsert_AnyLocation(map, p) == ~HasPlace(map, p.place_id)

\* p.location && !candidates[theme].has(p.place_id)
ShouldInsert(map, p) == p.location # NULL /\ ~HasPlace(map, p.place_id)

\* the merge with set() for every located result: a later occurrence
\* replaces the stored entry
RECURSIVE MergeKept_LastWins(_, _, _)
MergeKept_LastWins(map, kept, theme) ==
  IF kept = <<>> THEN map
  ELSE LET p == Head(kept)
           e == [place_id |-> p.place_id, rating |-> p.rating,
                 user_ratings_total |-> p.user_ratings_total,
                 location |-> p.location, theme |-> theme,
                 detourMinutes |-> NULL]
           map2 == IF p.location = NULL THEN map
                   ELSE IF HasPlace(map, p.place_id)
                   THEN [i \in 1..Len(map) |->
                           IF map[i].place_id = p.place_id THEN e ELSE map[i]]
                   ELSE Append(map, e)
       IN MergeKept_LastWins(map2, Tail(kept), theme)

RECURSIVE MergeKept(_, _, _)
MergeKept(map, kept, theme) ==
  IF kept = <<>> THEN map
  ELSE LET p == Head(kept)
           map2 == IF ShouldInsert(map, p)
                   THEN Append(map, [place_id |-> p.place_id, rating |-> p.rating,
                                     user_ratings_total |-> p.user_ratings_total,
                                     location |-> p.location, theme |-> theme,
                                     detourMinutes |-> NULL])
                   ELSE map
       IN MergeKept(map2, Tail(kept), theme)

\* the results without a location dropped before the cut
KeptOf_LocatedOnly(results, cap) ==
  Slice(StableSort(SelectSeq(results, LAMBDA p : p.location # NULL), QualityCmp), cap)

\* results.sort(...); results.slice(0, perSampleCap)
KeptOf(results, cap) == Slice(StableSort(results, QualityCmp), cap)

\* the first perThemeCap values of the Map, unsorted
TrimTheme_NoSort(map, cap) == Slice(map, cap)

\* the sorted values of the Map, all of them
TrimTheme_NoSlice(map, cap) == StableSort(map, QualityCmp)

\* Array.from(map.values()).sort(...).slice(0, perThemeCap)
TrimTheme(map, cap) == Slice(StableSort(map, QualityCmp), cap)

\* the window of detourForPlace around the nearest vertex, indices from 1
K == 12

\* the window taken modulo the path length instead of clamped
WindowOf_Wraps(path, p) ==
  LET idx == nearestIndex(path, Val(p.location))
  IN [idx |-> idx,
      startIdx |-> ((idx - 1 - (K \div 2)) % Len(path)) + 1,
      endIdx |-> ((idx - 1 + (K \div 2)) % Len(path)) + 1]

WindowOf(path, p) ==
  LET idx == nearestIndex(path, Val(p.location))
  IN [idx |-> idx,
      startIdx |-> Max(1, idx - (K \div 2)),
      endIdx |-> Min(Len(path), idx + (K \div 2))]

\* the ends and the waypoint that detourForPlace hands to detourMinutes
\* for its two routing queries; none when the window is degenerate
DetourQueryOf(path, p) ==
  LET w == WindowOf(path, p)
  IN IF w.endIdx <= w.startIdx THEN NULL
     ELSE Some([start |-> path[w.startIdx], end |-> path[w.endIdx],
                via |-> Val(p.location)])

(* ------------------------------- state --------------------------------- *)
VARIABLES
  req,          \* the request being handled
  pc,           \* the handler's position
  resp,         \* the response sent (status 0: none yet)
  calls,        \* outbound calls issued so far, per provider
  base,         \* the answer of directionsAB
  path,         \* decoded base path
  everyMeters,  \* sample spacing
  samples,      \* sample points
  candidates,   \* theme -> Map(place_id -> place), in insertion order
  shortlists,   \* theme -> trimmed, then priced and re-ranked list
  si, ti, qi,   \* loop positions: sample, theme, query of the strategy
  results,      \* running results of the current (sample, theme) pair
  ci,           \* loop position in the shortlist being priced
  lastDetour,   \* the most recent detour pricing: its answers and its value
  failedPairs,  \* <<theme, place_id>> whose pricing had a routing query fail
  waypoints,    \* the waypoints parameter of the final-route call
  logged,       \* what the catch block passed to console.error
  mergeLog,     \* which skips the merges of this request have made
  detourCalls,  \* theme -> routing queries issued to price its shortlist
  routed,       \* the provider's answer to the final-route call
  arg,          \* the input of a function applied on its own
  out,          \* the value that function returned
  page,         \* the planner page in the browser: its React state
  parked        \* the other request of a pair, suspended at an await

vars == <<req, pc, resp, calls, base, path, everyMeters, samples, candidates,
          shortlists, si, ti, qi, results, ci, lastDetour, failedPairs, waypoints,
          logged, mergeLog, detourCalls, routed, world, arg, out, page, parked>>

discoverVars == <<base, path, everyMeters, samples, candidates, shortlists,
                  si, ti, qi, results, ci, lastDetour, failedPairs, mergeLog,
                  detourCalls>>

\* what no handler step changes
fixedVars == <<world, arg, out, page, parked>>

NoResp == [status |-> 0, error |-> "", body |-> NULL]
\* the error body sent without status(code): the default 200
ErrorResp_NoStatus(code, msg) == [status |-> 200, error |-> msg, body |-> NULL]

\* res.status(code).json({ error: msg })
ErrorResp(code, msg) == [status |-> code, error |-> msg, body |-> NULL]
\* a catch block that sends along the candidates collected so far
Unexpected_WithShortlists ==
  [status |-> 500, error |-> "Unexpected server error",
   body |-> Some([candidates |-> candidates])]

\* the catch block of both handlers
Unexpected == ErrorResp(500, "Unexpected server error")
BadRequest == ErrorResp(400, "origin and destination are required")

\* the planner page as mounted: nothing typed, found, selected or built
NoPage ==
  [hasEnds |-> FALSE, hasThemes |-> TRUE, discovering |-> FALSE, building |-> FALSE,
   candidates |-> {}, selectedIds |-> <<>>,
   finalPolyline |-> NULL, finalTotals |-> NULL, finalOrder |-> NULL,
   finalStopCards |-> <<>>, finalStale |-> FALSE, buildFlight |-> NULL]

NoDetour == [theme |-> "", place_id |-> 0, queried |-> FALSE,
             base |-> [transport |-> "ok", status |-> "", seconds |-> 0],
             withVia |-> [transport |-> "ok", status |-> "", seconds |-> 0],
             minutes |-> NULL]

\* String(themes).split(",").map(trim).filter(Boolean)
themeList == req.themes
ThemeSet == {req.themes[i] : i \in 1..Len(req.themes)}

Init ==
  /\ req \in DiscoverRequests \cup FinalRequests
  /\ pc = "start"
  /\ resp = NoResp
  /\ calls = [directions |-> 0, places |-> 0]
  /\ base = NULL
  /\ path = <<>>
  /\ everyMeters = 0
  /\ samples = <<>>
  /\ candidates = <<>>
  /\ shortlists = <<>>
  /\ si = 1 /\ ti = 1 /\ qi = 1 /\ ci = 1
  /\ results = <<>>
  /\ lastDetour = NoDetour
  /\ failedPairs = {}
  /\ waypoints = NULL
  /\ logged = NULL
  /\ mergeLog = [duplicate |-> FALSE, noLocation |-> FALSE]
  /\ detourCalls = <<>>
  /\ routed = NULL
  /\ world = 1..NumPlaces
  /\ page = NoPage
  /\ parked = NULL
  /\ arg = NULL
  /\ out = NULL

(* ------------------------ GET /api/discover-stops ---------------------- *)
\* the check of origin and destination
DiscoverValidate ==
  /\ pc = "start" /\ req.kind = "discover"
  /\ IF MissingEnds(req)
     THEN /\ resp' = BadRequest
          /\ pc' = "done"
     ELSE /\ pc' = "base"
          /\ UNCHANGED resp
  /\ UNCHANGED <<req, calls, discoverVars, waypoints, logged>>
  /\ UNCHANGED <<routed, fixedVars>>

\* 1) baseline corridor: directionsAB answered with ans, then decode,
\* spacing, sampling and the empty per-theme maps
BaseRouteWith(ans) ==
  /\ pc = "base"
  /\ calls' = [calls EXCEPT !.directions = @ + 1]
  /\ IF DirectionsABThrows(ans)
     THEN /\ resp' = Unexpected
          /\ logged' = Some(DirectionsABError(ans))
          /\ pc' = "done"
          /\ UNCHANGED discoverVars
     ELSE IF ans.polyline = NULL
     THEN /\ resp' = ErrorResp(404, "No route polyline")
          /\ pc' = "done"
          /\ UNCHANGED <<discoverVars, logged>>
     ELSE LET pa == decodePolyline(ans.polyline)
              em == everyMetersOf(PathLength(pa), req.days)
          IN /\ base' = Some([polyline |-> ans.polyline])
             /\ path' = pa
             /\ everyMeters' = em
             /\ samples' = samplePath(pa, em)
             /\ candidates' = [t \in ThemeSet |-> <<>>]
             /\ detourCalls' = [t \in ThemeSet |-> 0]
             /\ si' = 1 /\ ti' = 1 /\ qi' = 1
             /\ results' = <<>>
             /\ pc' = "fanout"
             /\ UNCHANGED <<resp, shortlists, ci, lastDetour, failedPairs,
                            mergeLog, logged>>
  /\ UNCHANGED <<req, waypoints>>
  /\ UNCHANGED <<routed, fixedVars>>

BaseRoute ==
  /\ pc = "base"
  /\ \E ans \in BaseAnswers : BaseRouteWith(ans)

\* a theme without configuration ends the request in the catch block
SkipTheme_Fails ==
  /\ pc = "fanout" /\ ti <= Len(themeList)
  /\ themeList[ti] \notin DOMAIN THEME_MAP
  /\ resp' = Unexpected
  /\ pc' = "done"
  /\ UNCHANGED <<req, calls, discoverVars, waypoints, logged, routed, fixedVars>>

\* a skip that does not move on to the next theme
SkipTheme_Stuck ==
  /\ pc = "fanout" /\ ti <= Len(themeList)
  /\ themeList[ti] \notin DOMAIN THEME_MAP
  /\ UNCHANGED vars

\* if (!cfg) continue
SkipTheme ==
  /\ pc = "fanout" /\ ti <= Len(themeList)
  /\ themeList[ti] \notin DOMAIN THEME_MAP
  /\ ti' = ti + 1
  /\ UNCHANGED <<req, pc, resp, calls, base, path, everyMeters, samples, candidates,
                 shortlists, si, qi, results, ci, lastDetour, failedPairs, waypoints,
                 logged, mergeLog>>
  /\ UNCHANGED <<detourCalls, routed, fixedVars>>

\* the strategy loop without its break
StrategyDone_NoBreak(r2, cap, q, theme) == q = Len(StrategyQueries(theme))

\* the strategy loop ends after the call: break on results.length >=
\* perSampleCap, or the last type / query was tried
StrategyDone(r2, cap, q, theme) ==
  Len(r2) >= cap \/ q = Len(StrategyQueries(theme))

\* one placesNearby / placesTextSearch call of the strategy loop, answered
\* with ans; when the loop ends (break, or last type / query) the pair's
\* results are sorted, cut and merged
PlacesQueryWith(ans) ==
  /\ pc = "fanout" /\ ti <= Len(themeList)
  /\ themeList[ti] \in DOMAIN THEME_MAP
  /\ LET theme == themeList[ti]
         r2 == results \o PlacesResult(ans)
         cap == perSampleCap(req)
         kept == KeptOf(r2, cap)
     IN /\ calls' = [calls EXCEPT !.places = @ + 1]
        /\ IF PlacesThrows(ans)
           THEN /\ resp' = Unexpected
                /\ logged' = Some(PlacesError(ans))
                /\ pc' = "done"
                /\ UNCHANGED <<candidates, ti, qi, results, mergeLog>>
           ELSE IF StrategyDone(r2, cap, qi, theme)
           THEN /\ candidates' = [candidates EXCEPT ![theme] = MergeKept(@, kept, theme)]
                /\ mergeLog' =
                     [duplicate |-> mergeLog.duplicate \/
                        \E i \in 1..Len(kept) : kept[i].location # NULL
                           /\ HasPlace(candidates[theme], kept[i].place_id),
                      noLocation |-> mergeLog.noLocation \/
                        \E i \in 1..Len(kept) : kept[i].location = NULL]
                /\ results' = <<>>
                /\ qi' = 1
                /\ ti' = ti + 1
                /\ UNCHANGED <<resp, pc, logged>>
           ELSE /\ results' = r2
                /\ qi' = qi + 1
                /\ UNCHANGED <<resp, pc, candidates, ti, logged, mergeLog>>
  /\ UNCHANGED <<req, base, path, everyMeters, samples, shortlists, si, ci,
                 lastDetour, failedPairs, waypoints>>
  /\ UNCHANGED <<detourCalls, routed, fixedVars>>

PlacesQuery == \E ans \in PlacesAnswers : PlacesQueryWith(ans)

\* end of the theme loop for one sample: next sample, or past the last one
\* 3) trim per theme by quality
NextSample ==
  /\ pc = "fanout" /\ ti > Len(themeList)
  /\ IF si < Len(samples)
     THEN /\ si' = si + 1
          /\ ti' = 1
          /\ UNCHANGED <<pc, shortlists, ci>>
     ELSE /\ shortlists' = [t \in ThemeSet |-> TrimTheme(candidates[t], perThemeCap(req))]
          /\ pc' = "detour"
          /\ ti' = 1
          /\ ci' = 1
          /\ UNCHANGED si
  /\ UNCHANGED <<req, resp, calls, base, path, everyMeters, samples, candidates,
                 qi, results, lastDetour, failedPairs, waypoints, logged, mergeLog>>
  /\ UNCHANGED <<detourCalls, routed, fixedVars>>

\* the candidate detourForPlace prices next
NextToPrice == shortlists[themeList[ti]][ci]

\* p.detourMinutes = await detourForPlace(p), the direct query answered
\* with b and the query via the place with v
DetourPriceWith(b, v) ==
  /\ pc = "detour" /\ ti <= Len(themeList)
  /\ ci <= Len(shortlists[themeList[ti]])
  /\ LET theme == themeList[ti]
         p == shortlists[theme][ci]
         w == WindowOf(path, p)
     IN IF w.endIdx <= w.startIdx
        THEN /\ shortlists' = [shortlists EXCEPT ![theme][ci].detourMinutes = NULL]
             /\ lastDetour' = [NoDetour EXCEPT !.theme = theme, !.place_id = p.place_id]
             /\ ci' = ci + 1
             /\ UNCHANGED <<resp, pc, calls, detourCalls, failedPairs, logged>>
        ELSE /\ calls' = [calls EXCEPT !.directions = @ + 2]
             /\ detourCalls' = [detourCalls EXCEPT ![theme] = @ + 2]
             /\ lastDetour' = [theme |-> theme, place_id |-> p.place_id, queried |-> TRUE,
                               base |-> b, withVia |-> v,
                               minutes |-> IF b.transport = "rejected" \/ v.transport = "rejected"
                                           THEN NULL ELSE detourMinutes(b, v)]
             /\ failedPairs' = IF b.status # "OK" \/ v.status # "OK"
                               THEN failedPairs \cup {<<theme, p.place_id>>}
                               ELSE failedPairs
             /\ IF b.transport = "rejected" \/ v.transport = "rejected"
                THEN /\ resp' = Unexpected
                     /\ logged' = Some(FetchRejected)
                     /\ pc' = "done"
                     /\ UNCHANGED <<shortlists, ci>>
                ELSE /\ shortlists' = [shortlists EXCEPT ![theme][ci].detourMinutes = detourMinutes(b, v)]
                     /\ ci' = ci + 1
                     /\ UNCHANGED <<resp, pc, logged>>
  /\ UNCHANGED <<req, base, path, everyMeters, samples, candidates, si, ti, qi,
                 results, waypoints, mergeLog>>
  /\ UNCHANGED <<routed, fixedVars>>

DetourPrice ==
  /\ pc = "detour" /\ ti <= Len(themeList)
  /\ ci <= Len(shortlists[themeList[ti]])
  /\ \E b \in DetourAnswers(DirectSeconds),
        v \in DetourAnswers(ViaSeconds(NextToPrice.place_id)) :
       DetourPriceWith(b, v)

\* re-rank by (quality minus detour penalty) once the theme's list is priced
ReRankTheme ==
  /\ pc = "detour" /\ ti <= Len(themeList)
  /\ ci > Len(shortlists[themeList[ti]])
  /\ shortlists' = [shortlists EXCEPT ![themeList[ti]] = ReRank(@)]
  /\ ti' = ti + 1
  /\ ci' = 1
  /\ UNCHANGED <<req, pc, resp, calls, base, path, everyMeters, samples, candidates,
                 si, qi, results, lastDetour, failedPairs, waypoints, logged, mergeLog>>
  /\ UNCHANGED <<detourCalls, routed, fixedVars>>

\* 5) response
DiscoverRespond ==
  /\ pc = "detour" /\ ti > Len(themeList)
  /\ resp' = [status |-> 200, error |-> "",
              body |-> Some([polyline |-> Val(base).polyline,
                             days |-> req.days,
                             themes |-> themeList,
                             sampleEveryMeters |-> everyMeters,
                             candidates |-> shortlists])]
  /\ pc' = "done"
  /\ UNCHANGED <<req, calls, discoverVars, waypoints, logged>>
  /\ UNCHANGED <<routed, fixedVars>>

(* -------------------------- POST /api/final-route ---------------------- *)
FinalValidate ==
  /\ pc = "start" /\ req.kind = "final"
  /\ IF MissingEnds(req)
     THEN /\ resp' = BadRequest
          /\ pc' = "done"
     ELSE /\ pc' = "route"
          /\ UNCHANGED resp
  /\ UNCHANGED <<req, calls, discoverVars, waypoints, logged>>
  /\ UNCHANGED <<routed, fixedVars>>

\* the waypoints parameter set whatever the selection
WaypointParam_Always(ids) == Some(ids)

\* the waypoints parameter: set only for a non-empty selection
WaypointParam(ids) == IF Len(ids) > 0 THEN Some(ids) ELSE NULL

\* the first leg's value taken for the whole route
LegSum_FirstLegOnly(legs, field) ==
  IF legs = <<>> \/ legs[1][field] = NULL THEN 0 ELSE Val(legs[1][field])

\* legs.reduce((s, l) => s + (l.<field>?.value || 0), 0)
LegSum(legs, field) ==
  SumSeq([i \in 1..Len(legs) |->
            IF legs[i][field] = NULL THEN 0 ELSE Val(legs[i][field])])

\* the provider's failure answered as the generic server error
DirectionsErrorResp_Generic(ans) == Unexpected

\* res.status(400).json({ error: "Directions error", status, message })
DirectionsErrorResp(ans) ==
  [status |-> 400, error |-> "Directions error",
   body |-> Some([status |-> ans.status, message |-> ans.message])]

\* the single routing call and the reshaping of its answer
FinalRoute ==
  /\ pc = "route"
  /\ \E ans \in FinalAnswers :
       /\ waypoints' = WaypointParam(req.selectedPlaceIds)
       /\ calls' = [calls EXCEPT !.directions = @ + 1]
       /\ routed' = Some(ans)
       /\ resp' = IF ans.transport = "rejected" THEN Unexpected
                  ELSE IF ans.status # "OK"
                  THEN DirectionsErrorResp(ans)
                  ELSE [status |-> 200, error |-> "",
                        body |-> Some([polyline |-> ans.polyline,
                                       nlegs |-> Len(ans.legs),
                                       totals |-> [distance_meters |-> LegSum(ans.legs, "distance"),
                                                   duration_seconds |-> LegSum(ans.legs, "duration")],
                                       waypoint_order |-> ans.waypoint_order])]
       /\ logged' = IF ans.transport = "rejected" THEN Some(FetchRejected) ELSE NULL
       /\ pc' = "done"
  /\ UNCHANGED <<req, discoverVars>>
  /\ UNCHANGED fixedVars

Next ==
  \/ DiscoverValidate
  \/ BaseRoute
  \/ SkipTheme
  \/ PlacesQuery
  \/ NextSample
  \/ DetourPrice
  \/ ReRankTheme
  \/ DiscoverRespond
  \/ FinalValidate
  \/ FinalRoute

Spec == Init /\ [][Next]_vars

\* the requests of one-day trips, against a provider that knows a place
\* with and a place without location
InitFair ==
  /\ req \in {r \in DiscoverRequests \cup FinalRequests : r.days = 1}
  /\ pc = "start"
  /\ resp = NoResp
  /\ calls = [directions |-> 0, places |-> 0]
  /\ base = NULL
  /\ path = <<>>
  /\ everyMeters = 0
  /\ samples = <<>>
  /\ candidates = <<>>
  /\ shortlists = <<>>
  /\ si = 1 /\ ti = 1 /\ qi = 1 /\ ci = 1
  /\ results = <<>>
  /\ lastDetour = NoDetour
  /\ failedPairs = {}
  /\ waypoints = NULL
  /\ logged = NULL
  /\ mergeLog = [duplicate |-> FALSE, noLocation |-> FALSE]
  /\ detourCalls = <<>>
  /\ routed = NULL
  /\ world = {1, 3}
  /\ page = NoPage
  /\ parked = NULL
  /\ arg = NULL
  /\ out = NULL

\* every awaited provider call returns or throws, and the event loop runs
\* the continuation: a handler that can take a step takes one
SpecFair == InitFair /\ [][Next]_vars /\ WF_vars(Next)

(* --------------------- the spacing on its own inputs ------------------- *)
\* two-vertex paths of growing length, and the days they are sampled for
SpacingPaths ==
  {<<[lat |-> 0, lng |-> 0], [lat |-> 1 + 60000 * k, lng |-> 0]>> : k \in 0..14}
SpacingDays == 1..(MaxDays + 2)

InitSpacing ==
  /\ req \in [kind : {"spacing"}, origin : {Some("A")}, destination : {Some("B")},
              days : SpacingDays, themes : {<<>>}, perTheme : {3},
              perSamplePerTheme : {1}, selectedPlaceIds : {<<>>}]
  /\ path \in SpacingPaths
  /\ pc = "spacing"
  /\ resp = NoResp
  /\ calls = [directions |-> 0, places |-> 0]
  /\ base = NULL
  /\ everyMeters = 0
  /\ samples = <<>>
  /\ candidates = <<>>
  /\ shortlists = <<>>
  /\ si = 1 /\ ti = 1 /\ qi = 1 /\ ci = 1
  /\ results = <<>>
  /\ lastDetour = NoDetour
  /\ failedPairs = {}
  /\ waypoints = NULL
  /\ logged = NULL
  /\ mergeLog = [duplicate |-> FALSE, noLocation |-> FALSE]
  /\ detourCalls = <<>>
  /\ routed = NULL
  /\ world = 1..NumPlaces
  /\ page = NoPage
  /\ parked = NULL
  /\ arg = NULL
  /\ out = NULL

\* the spacing computation of the handler applied to the path and the days
SpacingStep ==
  /\ pc = "spacing"
  /\ everyMeters' = everyMetersOf(PathLength(path), req.days)
  /\ pc' = "spaced"
  /\ UNCHANGED <<req, resp, calls, base, path, samples, candidates, shortlists,
                 si, ti, qi, results, ci, lastDetour, failedPairs, waypoints,
                 logged, mergeLog>>
  /\ UNCHANGED <<detourCalls, routed, fixedVars>>

SpecSpacing == (Init \/ InitSpacing) /\ [][Next \/ SpacingStep]_vars

(* ------------- discovery with more candidates than the cap ------------ *)
\* requests for one text theme with two results kept per sample, and a
\* provider that knows enough located places to exceed perThemeCap
TrimRequests ==
  [kind : {"discover"}, origin : {Some("A")}, destination : {Some("B")},
   days : {1}, themes : {<<"waterfalls">>}, perTheme : {1, 3},
   perSamplePerTheme : {2}, selectedPlaceIds : {<<>>}]

InitTrim ==
  /\ req \in TrimRequests
  /\ pc = "start"
  /\ resp = NoResp
  /\ calls = [directions |-> 0, places |-> 0]
  /\ base = NULL
  /\ path = <<>>
  /\ everyMeters = 0
  /\ samples = <<>>
  /\ candidates = <<>>
  /\ shortlists = <<>>
  /\ si = 1 /\ ti = 1 /\ qi = 1 /\ ci = 1
  /\ results = <<>>
  /\ lastDetour = NoDetour
  /\ failedPairs = {}
  /\ waypoints = NULL
  /\ logged = NULL
  /\ mergeLog = [duplicate |-> FALSE, noLocation |-> FALSE]
  /\ detourCalls = <<>>
  /\ routed = NULL
  /\ world = 1..(NumPlaces + 2)
  /\ page = NoPage
  /\ parked = NULL
  /\ arg = NULL
  /\ out = NULL

NextTrim ==
  \/ DiscoverValidate
  \/ BaseRoute
  \/ PlacesQuery
  \/ NextSample
  \/ DetourPrice
  \/ ReRankTheme
  \/ DiscoverRespond

SpecTrim == InitTrim /\ [][NextTrim]_vars

(* ------------------- functions applied on their own -------------------- *)
\* the state around a function that is applied outside the handlers
NoRequest == [kind |-> "apply", origin |-> NULL, destination |-> NULL, days |-> 1,
              themes |-> <<>>, perTheme |-> 3, perSamplePerTheme |-> 1,
              selectedPlaceIds |-> <<>>]

IdleServer ==
  /\ req = NoRequest
  /\ resp = NoResp
  /\ calls = [directions |-> 0, places |-> 0]
  /\ base = NULL
  /\ path = <<>>
  /\ everyMeters = 0
  /\ samples = <<>>
  /\ candidates = <<>>
  /\ shortlists = <<>>
  /\ si = 1 /\ ti = 1 /\ qi = 1 /\ ci = 1
  /\ results = <<>>
  /\ lastDetour = NoDetour
  /\ failedPairs = {}
  /\ waypoints = NULL
  /\ logged = NULL
  /\ mergeLog = [duplicate |-> FALSE, noLocation |-> FALSE]
  /\ detourCalls = <<>>
  /\ routed = NULL
  /\ world = 1..NumPlaces
  /\ out = NULL

Idle ==
  /\ IdleServer
  /\ page = NoPage
  /\ parked = NULL

serverVars == <<req, resp, calls, base, path, everyMeters, samples, candidates,
                shortlists, si, ti, qi, results, ci, lastDetour, failedPairs,
                waypoints, logged, mergeLog, detourCalls, routed, world>>

handlerVars == <<serverVars, page, parked>>

(* ----------------------- samplePath on its own ------------------------- *)
\* 100 km of one meridian, in units of 1e-5 degree
HundredKm == 89937

Meridian(lats) == [i \in 1..Len(lats) |-> [lat |-> lats[i], lng |-> 0]]

\* a straight path of the given length cut into n equal segments
EvenPath(total, n) == Meridian([i \in 1..(n + 1) |-> (total * (i - 1)) \div n])

\* straight 100 km paths with sparse, dense and uneven vertices, a path
\* that turns back, short paths and the single-vertex path
SamplePaths ==
  {EvenPath(HundredKm, n) : n \in 1..MaxSegments}
  \cup {EvenPath(HundredKm, 20), EvenPath(HundredKm, 50)}
  \cup {Meridian(<<0, 900, HundredKm - 900, HundredKm>>),
        Meridian(<<0, 13000, 26000, 39000, 40000, 41000, HundredKm>>),
        Meridian(<<0, 45000, 0, 45000>>),
        Meridian(<<0, 13490>>),
        Meridian(<<0, 13491>>),
        Meridian(<<0, 100, 200>>),
        Meridian(<<500>>)}

SampleSpacings == {1, 5000, 15000, 40000, 200000}

InitSample ==
  /\ Idle
  /\ pc = "samplePath"
  /\ arg \in [path : SamplePaths, everyMeters : SampleSpacings]

SampleStep ==
  /\ pc = "samplePath"
  /\ out' = Some(samplePath(arg.path, arg.everyMeters))
  /\ pc' = "sampled"
  /\ UNCHANGED <<handlerVars, arg>>

SpecSample == InitSample /\ [][SampleStep]_vars

(* --------------------- decodePolyline on its own ----------------------- *)
\* valid coordinates in units of 1e-5 degree: the poles, the antimeridian,
\* values around zero and the first point of the provider's documentation
CodecLats == {-9000000, -1, 0, 3850000, 9000000}
CodecLngs == {-18000000, -12020000, 0, 16, 18000000}

CodecPaths ==
  UNION {[1..n -> [lat : CodecLats, lng : CodecLngs]] : n \in 0..MaxPoints}

\* the string without its last k characters
DropLast(str, k) == SubSeq(str, 1, Max(0, Len(str) - k))

\* the provider's encoding of a path, whole (cut = 0) or cut short
InitDecode ==
  /\ Idle
  /\ pc = "decodePolyline"
  /\ arg \in {[path |-> pa, cut |-> k, str |-> DropLast(encodePolyline(pa), k)] :
                pa \in CodecPaths, k \in 0..MaxCut}

\* decodePolyline has no throw statement: it returns coords for every string
DecodeStep ==
  /\ pc = "decodePolyline"
  /\ out' = Some(decodePolyline(arg.str))
  /\ pc' = "decoded"
  /\ UNCHANGED <<handlerVars, arg>>

SpecDecode == InitDecode /\ [][DecodeStep]_vars

(* ------------------------ the two cuts on their own --------------------- *)
\* every place of the provider's tables, place 3 without a location
CutCatalogue == DOMAIN ProviderRating

\* the concatenated results of one pair, or the values of a theme's Map
CutLists ==
  {[i \in 1..Len(q) |-> NormalizePlace(RawPlace(q[i]))] :
     q \in InjectiveSeqs(CutCatalogue, MaxList) \ {<<>>}}

\* the values perSampleCap takes (1 to 5) and the least perThemeCap (3),
\* as far as they can cut a list
CutCaps == 1..MaxList

InitCut ==
  /\ Idle
  /\ pc = "cut"
  /\ arg \in [list : CutLists, cap : CutCaps]

\* the per-pair cut followed by the merge into an empty Map, and the
\* per-theme trim, of the same list
CutStep ==
  /\ pc = "cut"
  /\ out' = Some([kept |-> KeptOf(arg.list, arg.cap),
                  merged |-> MergeKept(<<>>, KeptOf(arg.list, arg.cap), "parks"),
                  trimmed |-> TrimTheme(arg.list, arg.cap)])
  /\ pc' = "cutDone"
  /\ UNCHANGED <<handlerVars, arg>>

SpecCut == InitCut /\ [][CutStep]_vars

(* --------------------- the detour window on its own --------------------- *)
\* paths of 1 to MaxSegments + 8 vertices, 1000 units of latitude apart
WindowPaths ==
  {Meridian([i \in 1..n |-> 1000 * (i - 1)]) : n \in 1..(MaxSegments + 8)}

\* candidates before the path, along it, between two vertices and past it
WindowPlaces ==
  {[place_id |-> 1, location |-> Some([lat |-> la, lng |-> 0])] :
     la \in {-5000, 0, 400, 3500, 6000, 9600, 13000, 19000, 50000}}

InitWindow ==
  /\ Idle
  /\ pc = "window"
  /\ arg \in [path : WindowPaths, place : WindowPlaces]

WindowStep ==
  /\ pc = "window"
  /\ out' = Some([window |-> WindowOf(arg.path, arg.place),
                  query |-> DetourQueryOf(arg.path, arg.place)])
  /\ pc' = "windowDone"
  /\ UNCHANGED <<handlerVars, arg>>

SpecWindow == InitWindow /\ [][WindowStep]_vars

(* -------------------------- the merge on its own ------------------------ *)
\* what searches at different samples may return for places 1, 3 and 4:
\* the provider's data, or the same place with another review count
SeenPlaces ==
  {[NormalizePlace(RawPlace(i)) EXCEPT !.user_ratings_total = n] :
     i \in {1, 3, 4}, n \in {10, 100}}

\* the kept results of one pair: one or two results with distinct ids
SeenLists ==
  {<<p>> : p \in SeenPlaces}
  \cup {l \in SeenPlaces \X SeenPlaces : l[1].place_id # l[2].place_id}

InitSeen ==
  /\ Idle
  /\ pc = "seen"
  /\ arg \in UNION {[1..n -> SeenLists] : n \in 1..MaxBatches}

\* the merge loop run for each pair in processing order
RECURSIVE SeenFrom(_, _, _)
SeenFrom(lists, k, map) ==
  IF k > Len(lists) THEN map
  ELSE SeenFrom(lists, k + 1, MergeKept(map, lists[k], "parks"))

SeenStep ==
  /\ pc = "seen"
  /\ out' = Some(SeenFrom(arg, 1, <<>>))
  /\ pc' = "seenDone"
  /\ UNCHANGED <<handlerVars, arg>>

SpecSeen == InitSeen /\ [][SeenStep]_vars

(* --------------- merge, trim and re-rank on their own ------------------ *)
\* the caps of a request with perTheme = 3 and perSamplePerTheme = 2
MergeRequest == [NoRequest EXCEPT !.perSamplePerTheme = 2]

\* the located places of the provider, 1 to 6, and place 7, which has the
\* rating, reviews and position of place 1
MergeCatalogue == {1, 2, 4, 5, 6, 7}

\* the results of one (sample, theme) pair: results beyond perSampleCap
\* are cut before the merge, so the lists up to that length give every
\* kept list
PairResults == InjectiveSeqs(MergeCatalogue, perSampleCap(MergeRequest)) \ {<<>>}

OrdersOf(n) == {f \in [1..n -> 1..n] : \A i, j \in 1..n : i # j => f[i] # f[j]}

\* results.sort(...).slice(0, perSampleCap) of the pair's results
KeptOfPair(q) ==
  KeptOf(NormalizeAll([i \in 1..Len(q) |-> RawPlace(q[i])]), perSampleCap(MergeRequest))

\* the merges of the pairs order[k], order[k + 1], ... into the theme's Map
RECURSIVE MergeFrom(_, _, _, _)
MergeFrom(pairs, order, k, map) ==
  IF k > Len(order) THEN map
  ELSE MergeFrom(pairs, order, k + 1, MergeKept(map, KeptOfPair(pairs[order[k]]), "parks"))

\* detourForPlace with both routing answers OK
PriceAll(list) ==
  [i \in 1..Len(list) |->
     [list[i] EXCEPT !.detourMinutes =
        detourMinutes([transport |-> "ok", status |-> "OK", seconds |-> DirectSeconds],
                      [transport |-> "ok", status |-> "OK",
                       seconds |-> ViaSeconds(list[i].place_id)])]]

\* the theme's Map and its shortlist after the pairs were merged in order
MergedIn(pairs, order) ==
  LET map == MergeFrom(pairs, order, 1, <<>>)
  IN [map |-> map,
      shortlist |-> ReRank(PriceAll(TrimTheme(map, perThemeCap(MergeRequest))))]

InitMerge ==
  /\ Idle
  /\ pc = "merge"
  /\ arg \in UNION {[pairs : [1..n -> PairResults], order : OrdersOf(n)] :
                      n \in 1..MaxBatches}

\* the same results merged in the order of the loops and in the given order
MergeStep ==
  /\ pc = "merge"
  /\ out' = Some([inLoopOrder |-> MergedIn(arg.pairs, [k \in 1..Len(arg.pairs) |-> k]),
                  inGivenOrder |-> MergedIn(arg.pairs, arg.order)])
  /\ pc' = "merged"
  /\ UNCHANGED <<handlerVars, arg>>

SpecMerge == InitMerge /\ [][MergeStep]_vars

(* ------------------- the planner page (pages/Index.tsx) ----------------- *)
\* what the server answers to the page's discovery request: an error, or
\* the ids of the candidates it lists
PageDiscoverAnswers ==
  {[status |-> 500, candidates |-> {}],
   [status |-> 200, candidates |-> {}],
   [status |-> 200, candidates |-> {1, 2}],
   [status |-> 200, candidates |-> {2, 3}]}

\* the answers to a final-route request for n stops: an error, a route
\* without optimised order, and a route that visits the stops backwards
\* (waypoint_order counts from 0)
PageFinalAnswers(n) ==
  {[status |-> 500, polyline |-> NULL, waypoint_order |-> NULL],
   [status |-> 200, polyline |-> Some("route"), waypoint_order |-> NULL],
   [status |-> 200, polyline |-> Some("route"),
    waypoint_order |-> Some([i \in 1..n |-> n - i])]}

\* setSelectedIds(new Set()); setFinalPolyline(null); setFinalTotals(null);
\* setFinalOrder(null); setFinalStopCards([])
Cleared(pg) ==
  [pg EXCEPT !.selectedIds = <<>>, !.finalPolyline = NULL, !.finalTotals = NULL,
             !.finalOrder = NULL, !.finalStopCards = <<>>, !.finalStale = FALSE]

SeqHas(seq, id) == \E i \in 1..Len(seq) : seq[i] = id

InitPage ==
  /\ IdleServer
  /\ parked = NULL
  /\ arg = NULL
  /\ pc = "page"
  /\ page \in {[NoPage EXCEPT !.hasEnds = e, !.hasThemes = t] : e, t \in BOOLEAN}

\* discover(): the button is disabled while discovering; the two early
\* returns only alert; otherwise selection and final route are cleared and
\* the request is sent.  A buildFinal() still in flight is from now on one
\* that was started before the latest discover().
PageDiscover ==
  /\ ~page.discovering
  /\ page' = IF ~page.hasEnds \/ ~page.hasThemes
             THEN page
             ELSE [Cleared(page) EXCEPT
                     !.discovering = TRUE,
                     !.buildFlight = IF @ = NULL THEN NULL
                                     ELSE Some([Val(@) EXCEPT !.stale = TRUE])]
  /\ UNCHANGED <<serverVars, parked, pc, arg, out>>

\* the discovery response arrives: setCandidates on 200, an alert
\* otherwise; finally setDiscovering(false)
PageDiscoverDone ==
  /\ page.discovering
  /\ \E ans \in PageDiscoverAnswers :
       page' = [page EXCEPT
                  !.discovering = FALSE,
                  !.candidates = IF ans.status = 200 THEN ans.candidates ELSE @]
  /\ UNCHANGED <<serverVars, parked, pc, arg, out>>

\* toggleStop(id, checked) from the checkbox of a listed candidate
PageToggleStop ==
  /\ \E id \in page.candidates :
       page' = [page EXCEPT
                  !.selectedIds = IF SeqHas(@, id)
                                  THEN SelectSeq(@, LAMBDA x : x # id)
                                  ELSE Append(@, id)]
  /\ UNCHANGED <<serverVars, parked, pc, arg, out>>

\* buildFinal(): the button is disabled while building or with nothing
\* selected; without origin or destination it returns at once; otherwise
\* the request is sent with the selection and the candidates of this render
PageBuild ==
  /\ ~page.building /\ page.selectedIds # <<>>
  /\ page' = IF ~page.hasEnds
             THEN page
             ELSE [page EXCEPT
                     !.building = TRUE,
                     !.buildFlight = Some([providedIds |-> page.selectedIds,
                                           candidates |-> page.candidates,
                                           stale |-> FALSE])]
  /\ UNCHANGED <<serverVars, parked, pc, arg, out>>

\* data.waypoint_order.map(i => providedIds[i]) when the order is given
\* and not empty, providedIds otherwise
OrderedIds(order, providedIds) ==
  IF order # NULL /\ Len(Val(order)) > 0
  THEN [k \in 1..Len(Val(order)) |-> providedIds[Val(order)[k] + 1]]
  ELSE providedIds

\* the final-route response arrives: on 200 the final route, its totals,
\* its order and the stop cards are set; otherwise an alert; finally
\* setBuilding(false)
PageBuildDone ==
  /\ page.buildFlight # NULL
  /\ LET f == Val(page.buildFlight)
     IN \E ans \in PageFinalAnswers(Len(f.providedIds)) :
          page' = IF ans.status # 200
                  THEN [page EXCEPT !.building = FALSE, !.buildFlight = NULL]
                  ELSE [page EXCEPT
                          !.building = FALSE,
                          !.buildFlight = NULL,
                          !.finalPolyline = ans.polyline,
                          !.finalTotals = Some("totals"),
                          !.finalOrder = ans.waypoint_order,
                          !.finalStopCards =
                             SelectSeq(OrderedIds(ans.waypoint_order, f.providedIds),
                                       LAMBDA id : id \in f.candidates),
                          !.finalStale = f.stale]
  /\ UNCHANGED <<serverVars, parked, pc, arg, out>>

\* clearAll()
PageClearAll ==
  /\ page' = Cleared(page)
  /\ UNCHANGED <<serverVars, parked, pc, arg, out>>

NextPage ==
  \/ PageDiscover
  \/ PageDiscoverDone
  \/ PageToggleStop
  \/ PageBuild
  \/ PageBuildDone
  \/ PageClearAll

SpecPage == InitPage /\ [][NextPage]_vars

(* ----------------- two discovery requests in one process ---------------- *)
\* the request both clients send
PairRequest ==
  [kind |-> "discover", origin |-> Some("A"), destination |-> Some("B"), days |-> 1,
   themes |-> <<"cafes">>, perTheme |-> 3, perSamplePerTheme |-> 2,
   selectedPlaceIds |-> <<>>]

OkPlaces(q) ==
  [transport |-> "ok", status |-> "OK", results |-> [i \in 1..Len(q) |-> RawPlace(q[i])]]

\* what the providers answer to one request: to its base-route query, to
\* its places queries (the n-th query gets the n-th answer, cyclically) and
\* to the via-queries of its pricing; the direct queries are answered OK
PairOracles ==
  [base : {[transport |-> "ok", status |-> "OK",
            polyline |-> encodePolyline(Meridian(<<0, 18000, 36000>>))],
           [transport |-> "ok", status |-> "ZERO_RESULTS", polyline |-> NULL]},
   places : {<<OkPlaces(<<1, 2>>), OkPlaces(<<2>>)>>,
             <<OkPlaces(<<4>>), OkPlaces(<<3, 1>>)>>,
             <<[transport |-> "ok", status |-> "ZERO_RESULTS", results |-> <<>>],
               OkPlaces(<<5, 4>>),
               [transport |-> "ok", status |-> "OVER_QUERY_LIMIT", results |-> <<>>]>>},
   via : {"OK", "ZERO_RESULTS", "rejected"}]

\* the bindings of one invocation of the handler: everything it declares
\* with const / let, its request and its response
Locals ==
  [req |-> req, pc |-> pc, resp |-> resp, calls |-> calls, base |-> base,
   path |-> path, everyMeters |-> everyMeters, samples |-> samples,
   candidates |-> candidates, shortlists |-> shortlists,
   si |-> si, ti |-> ti, qi |-> qi, results |-> results, ci |-> ci,
   lastDetour |-> lastDetour, failedPairs |-> failedPairs, waypoints |-> waypoints,
   logged |-> logged, mergeLog |-> mergeLog, detourCalls |-> detourCalls,
   routed |-> routed]

\* the bindings of an invocation that has not run yet
FreshLocals(r) ==
  [req |-> r, pc |-> "start", resp |-> NoResp,
   calls |-> [directions |-> 0, places |-> 0], base |-> NULL,
   path |-> <<>>, everyMeters |-> 0, samples |-> <<>>,
   candidates |-> <<>>, shortlists |-> <<>>,
   si |-> 1, ti |-> 1, qi |-> 1, results |-> <<>>, ci |-> 1,
   lastDetour |-> NoDetour, failedPairs |-> {}, waypoints |-> NULL,
   logged |-> NULL, mergeLog |-> [duplicate |-> FALSE, noLocation |-> FALSE],
   detourCalls |-> <<>>, routed |-> NULL]

\* the invocation whose bindings are l runs next
Resume(l) ==
  /\ req' = l.req /\ pc' = l.pc /\ resp' = l.resp /\ calls' = l.calls
  /\ base' = l.base /\ path' = l.path /\ everyMeters' = l.everyMeters
  /\ samples' = l.samples /\ candidates' = l.candidates
  /\ shortlists' = l.shortlists
  /\ si' = l.si /\ ti' = l.ti /\ qi' = l.qi /\ results' = l.results /\ ci' = l.ci
  /\ lastDetour' = l.lastDetour /\ failedPairs' = l.failedPairs
  /\ waypoints' = l.waypoints /\ logged' = l.logged /\ mergeLog' = l.mergeLog
  /\ detourCalls' = l.detourCalls /\ routed' = l.routed

\* one candidates object at module level, used by every invocation
ResumedCandidates_Shared(own, left) == IF left = <<>> THEN own ELSE left

\* const candidates = {} inside the handler: an invocation that resumes
\* finds its own Maps (own), not those of the invocation that ran last
\* (left)
ResumedCandidates(own, left) == own

InitPair ==
  /\ IdleServer
  /\ page = NoPage
  /\ pc = "pair"
  /\ arg \in [1..2 -> PairOracles]
  /\ parked = Some([phase |-> "alone", id |-> 1,
                    other |-> FreshLocals(PairRequest),
                    alone |-> <<NoResp, NoResp>>, mixed |-> FALSE])

\* the first request arrives and runs alone
PairArrive ==
  /\ pc = "pair"
  /\ Resume(FreshLocals(PairRequest))
  /\ UNCHANGED fixedVars

\* the answers of the providers to the running request
Oracle == arg[Val(parked).id]

ViaAnswer(st, id) ==
  IF st = "rejected" THEN [transport |-> "rejected", status |-> "", seconds |-> 0]
  ELSE IF st = "OK" THEN [transport |-> "ok", status |-> "OK", seconds |-> ViaSeconds(id)]
  ELSE [transport |-> "ok", status |-> st, seconds |-> 0]

PairBaseRoute ==
  /\ pc = "base"
  /\ BaseRouteWith(Oracle.base)

PairPlacesQuery ==
  /\ pc = "fanout"
  /\ PlacesQueryWith(Cyc(Oracle.places, calls.places + 1))

PairDetourPrice ==
  /\ pc = "detour" /\ ti <= Len(themeList)
  /\ ci <= Len(shortlists[themeList[ti]])
  /\ DetourPriceWith([transport |-> "ok", status |-> "OK", seconds |-> DirectSeconds],
                     ViaAnswer(Oracle.via, NextToPrice.place_id))

\* a request that ran alone has answered: its response is kept; the second
\* request then runs alone in a process of its own, and after it both
\* requests arrive at one process
PairAloneDone ==
  /\ Val(parked).phase = "alone" /\ pc = "done"
  /\ Resume(FreshLocals(PairRequest))
  /\ parked' = Some([Val(parked) EXCEPT
                       !.alone[Val(parked).id] = resp,
                       !.id = IF @ = 1 THEN 2 ELSE 1,
                       !.phase = IF Val(parked).id = 1 THEN "alone" ELSE "both"])
  /\ UNCHANGED <<world, arg, out, page>>

\* at an await the event loop runs the other invocation
PairSwitch ==
  /\ Val(parked).phase = "both"
  /\ Val(parked).other.pc # "done"
  /\ Resume([Val(parked).other EXCEPT
               !.candidates = ResumedCandidates(@, candidates)])
  /\ parked' = Some([Val(parked) EXCEPT
                       !.other = Locals,
                       !.id = 3 - @,
                       !.mixed = @ \/ (pc \notin {"start", "done"}
                                       /\ Val(parked).other.pc # "start")])
  /\ UNCHANGED <<world, arg, out, page>>

NextPair ==
  \/ PairArrive
  \/ DiscoverValidate
  \/ PairBaseRoute
  \/ PairPlacesQuery
  \/ NextSample
  \/ PairDetourPrice
  \/ ReRankTheme
  \/ DiscoverRespond
  \/ PairAloneDone
  \/ PairSwitch

SpecPair == InitPair /\ [][NextPair]_vars

(* ------------------------------ properties ----------------------------- *)
IsDiscoverOK == req.kind = "discover" /\ resp.status = 200
ResponseLists == Val(resp.body).candidates

\* the spacing before its clamp
RawSpacing == RoundDiv(PathLength(path), Min(15 * Max(1, req.days), 50))

\* C1: in the discovery response every theme's shortlist is ordered by
\* descending composite score: for positions i < j, score(i) >= score(j).
C1_ShortlistsDescending ==
  IsDiscoverOK =>
    \A t \in DOMAIN ResponseLists :
      \A i, j \in 1..Len(ResponseLists[t]) :
        i < j => Score(ResponseLists[t][i]) >= Score(ResponseLists[t][j])

\* C2: a places query that fails with a status other than OK / ZERO_RESULTS
\* does not end the request: no error response comes from it.
C2_PlacesFailureTolerated ==
  (logged # NULL /\ Val(logged).source = "Places") => resp.status \in {0, 200}

C4_MissingEndsRejected ==
  (req.origin = NULL \/ req.destination = NULL) =>
    /\ calls.directions = 0 /\ calls.places = 0
    /\ pc \in {"start", "done"}
    /\ pc = "done" => resp = BadRequest

C4_Witness ==
  /\ req.kind = "discover" /\ req.origin # NULL /\ req.destination = NULL
  /\ pc = "done" /\ resp.status = 400
  /\ calls.directions = 0 /\ calls.places = 0

C6_BaseFailureDistinguished ==
  (logged # NULL /\ Val(logged).source = "Directions") =>
    /\ resp # Unexpected
    /\ (Val(logged).status = "ZERO_RESULTS") <=> (resp.status = 404)

\* C7: no two candidates of one theme's list have the same place_id, in the
\* merged map, in the shortlist and in the response.
UniqueIds(list) ==
  \A i, j \in 1..Len(list) : i # j => list[i].place_id # list[j].place_id

C7_UniqueProviderIds ==
  /\ \A t \in DOMAIN candidates : UniqueIds(candidates[t])
  /\ \A t \in DOMAIN shortlists : UniqueIds(shortlists[t])
  /\ IsDiscoverOK => \A t \in DOMAIN ResponseLists : UniqueIds(ResponseLists[t])

C7_Witness ==
  /\ IsDiscoverOK
  /\ mergeLog.duplicate
  /\ Len(samples) > 1
  /\ \E t \in DOMAIN ResponseLists : Len(ResponseLists[t]) > 0

\* C8: every candidate of the merged maps, of the shortlists and of the
\* response has a location; a result without one is never priced.
AllLocated(list) == \A i \in 1..Len(list) : list[i].location # NULL

C8_EveryCandidateLocated ==
  /\ \A t \in DOMAIN candidates : AllLocated(candidates[t])
  /\ \A t \in DOMAIN shortlists : AllLocated(shortlists[t])
  /\ IsDiscoverOK => \A t \in DOMAIN ResponseLists : AllLocated(ResponseLists[t])
  /\ lastDetour.place_id # 0 => RawPlace(lastDetour.place_id).geometry # NULL

C8_Witness ==
  /\ IsDiscoverOK
  /\ mergeLog.noLocation
  /\ \E t \in DOMAIN ResponseLists : Len(ResponseLists[t]) > 0

\* C9: every detourMinutes is absent or an integer >= 0; a via route that
\* is faster than the direct route gives 0.
DetourNonNegative(list) ==
  \A i \in 1..Len(list) :
    list[i].detourMinutes = NULL
      \/ (Val(list[i].detourMinutes) \in Int /\ Val(list[i].detourMinutes) >= 0)

C9_DetourNeverNegative ==
  /\ \A t \in DOMAIN shortlists : DetourNonNegative(shortlists[t])
  /\ IsDiscoverOK => \A t \in DOMAIN ResponseLists : DetourNonNegative(ResponseLists[t])
  /\ (/\ lastDetour.base.status = "OK" /\ lastDetour.withVia.status = "OK"
      /\ lastDetour.withVia.seconds < lastDetour.base.seconds)
       => lastDetour.minutes = Some(0)

C9_Witness ==
  /\ IsDiscoverOK
  /\ lastDetour.base.status = "OK" /\ lastDetour.withVia.status = "OK"
  /\ lastDetour.withVia.seconds < lastDetour.base.seconds
  /\ \E i \in 1..Len(ResponseLists[lastDetour.theme]) :
       /\ ResponseLists[lastDetour.theme][i].place_id = lastDetour.place_id
       /\ ResponseLists[lastDetour.theme][i].detourMinutes = Some(0)

\* C10: for days >= 1 and a route of positive length the sample spacing
\* lies in [15000, 40000] metres, and the response echoes that spacing.
C10_SpacingWithinBounds ==
  (/\ pc \in {"spaced", "fanout", "detour"} \/ IsDiscoverOK
   /\ req.days >= 1 /\ PathLength(path) > 0)
    => /\ everyMeters >= 15000 /\ everyMeters <= 40000
       /\ IsDiscoverOK => Val(resp.body).sampleEveryMeters = everyMeters

C10_Witness ==
  /\ IsDiscoverOK
  /\ req.days >= 1 /\ PathLength(path) > 0
  /\ RawSpacing > 40000
  /\ Val(resp.body).sampleEveryMeters = 40000

\* the vertices of a path
Vertices(pa) == {pa[k] : k \in 1..Len(pa)}

\* C11: for every non-empty path and every positive spacing samplePath
\* returns at least one point, every returned point is a vertex of the
\* path, and a path shorter than the spacing (no vertex triggers an
\* emission) gives exactly the vertex at index floor(n / 2)
C11_SamplesAreVertices ==
  pc = "sampled" =>
    /\ Len(Val(out)) >= 1
    /\ \A i \in 1..Len(Val(out)) : Val(out)[i] \in Vertices(arg.path)
    /\ PathLength(arg.path) < arg.everyMeters =>
         Val(out) = <<arg.path[(Len(arg.path) \div 2) + 1]>>

\* both cases have been sampled: a path with emissions and the 100 km
\* two-vertex path under a spacing it never reaches
C11_Witness ==
  /\ pc = "sampled"
  /\ \/ /\ arg.path = EvenPath(HundredKm, 1) /\ arg.everyMeters = 200000
        /\ Val(out) = <<[lat |-> HundredKm, lng |-> 0]>>
     \/ /\ arg.path = EvenPath(HundredKm, 4) /\ arg.everyMeters = 40000
        /\ Len(Val(out)) = 2

\* the straight 100 km paths among the sampled ones
Straight100 ==
  {EvenPath(HundredKm, n) : n \in (1..MaxSegments) \cup {20, 50}}
  \cup {Meridian(<<0, 900, HundredKm - 900, HundredKm>>),
        Meridian(<<0, 13000, 26000, 39000, 40000, 41000, HundredKm>>)}

\* C12 as stated: a straight 100 km path sampled at 15000 m yields 6 or 7
\* points whatever the placement of its vertices
C12_SixOrSevenSamples ==
  (pc = "sampled" /\ arg.path \in Straight100 /\ arg.everyMeters = 15000) =>
    Len(Val(out)) \in {6, 7}

\* C12 amended: a straight 100 km path sampled at 15000 m yields at least
\* one and at most 6 points, 6 for vertices 2 km apart and a single point
\* for the path of two vertices
C12_OneToSixSamples ==
  (pc = "sampled" /\ arg.path \in Straight100 /\ arg.everyMeters = 15000) =>
    /\ Len(Val(out)) \in 1..6
    /\ arg.path = EvenPath(HundredKm, 50) => Len(Val(out)) = 6
    /\ arg.path = EvenPath(HundredKm, 1) => Len(Val(out)) = 1

\* the densest of the 100 km paths has been sampled at 15000 m
C12_Witness ==
  /\ pc = "sampled" /\ arg.everyMeters = 15000
  /\ arg.path = EvenPath(HundredKm, 50)
  /\ Len(Val(out)) = 6

\* C13: decodePolyline inverts the polyline encoding: the encoding of every
\* path of valid coordinates decodes to that path, point for point
C13_DecodeInvertsEncode ==
  (pc = "decoded" /\ arg.cut = 0) => out = Some(arg.path)

\* a path whose deltas are negative and several characters long has made
\* the round trip
C13_Witness ==
  /\ pc = "decoded" /\ arg.cut = 0
  /\ arg.path = <<[lat |-> 3850000, lng |-> -12020000],
                  [lat |-> -9000000, lng |-> 18000000]>>
  /\ out = Some(arg.path)

\* the groups a string closes: one per character below 0x20 after the
\* subtraction of 63
ClosedGroups(str) == Cardinality({i \in 1..Len(str) : str[i] - 63 < 32})

\* the string ends inside a delta group, or after a latitude delta that
\* no longitude delta follows
Truncated(str) ==
  \/ Len(str) > 0 /\ str[Len(str)] - 63 >= 32
  \/ ClosedGroups(str) % 2 = 1

\* C14: decodePolyline fails (MalformedPolyline) and returns no path when
\* the encoded string is truncated
C14_TruncatedRejected ==
  (pc = "decoded" /\ Truncated(arg.str)) => out = NULL

\* the requested themes THEME_MAP has no entry for
UnknownThemes == ThemeSet \ DOMAIN THEME_MAP

IsFinalOK == req.kind = "final" /\ resp.status = 200

\* C16: on a successful final-route call the response's waypoint_order is
\* the provider's, unchanged and in the same order, and the totals are the
\* sums of the distances and of the durations over all legs of the route
\* (a leg without a value adds nothing)
C16_OrderAndTotalsFromProvider ==
  IsFinalOK =>
    LET ans == Val(routed)
        RECURSIVE Total(_, _)
        Total(i, field) ==
          IF i = 0 THEN 0
          ELSE Total(i - 1, field)
               + (IF ans.legs[i][field] = NULL THEN 0 ELSE Val(ans.legs[i][field]))
    IN /\ ans.status = "OK"
       /\ Val(resp.body).waypoint_order = ans.waypoint_order
       /\ Val(resp.body).totals.distance_meters = Total(Len(ans.legs), "distance")
       /\ Val(resp.body).totals.duration_seconds = Total(Len(ans.legs), "duration")

\* a route of three legs with a reordered pair of waypoints was returned
C16_Witness ==
  /\ IsFinalOK
  /\ Len(Val(routed).legs) = 3
  /\ Val(resp.body).waypoint_order = <<1, 0>>
  /\ Val(resp.body).totals = [distance_meters |-> 1500, duration_seconds |-> 90]

\* C17: a final-route request with both ends issues exactly one routing
\* call (none before the call, one from then on, and no places call); when
\* the provider answers it with a status other than OK the response is the
\* 400 "Directions error" that carries the provider's status and message
\* and nothing else: no polyline, no legs, no totals
C17_OneCallAndProviderError ==
  (req.kind = "final" /\ req.origin # NULL /\ req.destination # NULL) =>
    /\ calls.places = 0
    /\ calls.directions = (IF pc = "done" THEN 1 ELSE 0)
    /\ (pc = "done" /\ Val(routed).transport = "ok" /\ Val(routed).status # "OK") =>
         /\ resp.status = 400
         /\ resp.error = "Directions error"
         /\ resp.body = Some([status |-> Val(routed).status,
                              message |-> Val(routed).message])

\* the provider has answered a final-route call with ZERO_RESULTS
C17_Witness ==
  /\ req.kind = "final" /\ pc = "done"
  /\ calls.directions = 1
  /\ Val(routed).transport = "ok" /\ Val(routed).status = "ZERO_RESULTS"
  /\ resp.status = 400

\* C18: base-route failure is terminal and fail-fast: as long as discover
\* has no base route it has issued no places query and at most the one
\* base-route query, it has no shortlists, and once that query has failed
\* or yielded no polyline the request is over with an error response (404
\* or 500) that carries no shortlists
C18_BaseFailureFailsFast ==
  (req.kind = "discover" /\ base = NULL) =>
    /\ calls.places = 0
    /\ calls.directions <= 1
    /\ shortlists = <<>>
    /\ calls.directions = 1 =>
         /\ pc = "done"
         /\ resp.status \in {404, 500}
         /\ resp.error # ""
         /\ resp.body = NULL

\* both failures have happened: the query failed (500, error logged) and
\* the query gave no polyline (404)
C18_Witness ==
  /\ req.kind = "discover" /\ base = NULL /\ calls.directions = 1
  /\ pc = "done"
  /\ \/ resp.status = 404
     \/ resp.status = 500 /\ logged # NULL

IdsOf(list) == {list[i].place_id : i \in 1..Len(list)}

\* two distinct candidates of the list have the same rating and the same
\* number of reviews
HasTie(list) ==
  \E i, j \in 1..Len(list) :
    /\ i # j
    /\ list[i].rating = list[j].rating
    /\ list[i].user_ratings_total = list[j].user_ratings_total

C20_TrimBoundsDetourQueries ==
  req.kind = "discover" =>
    LET cap == Max(3, Min(40, req.perTheme))
    IN /\ pc \in {"start", "base", "fanout"} =>
            /\ shortlists = <<>>
            /\ calls.directions <= 1
            /\ \A t \in DOMAIN detourCalls : detourCalls[t] = 0
       /\ \A t \in DOMAIN shortlists :
            /\ Len(shortlists[t]) <= cap
            /\ IdsOf(shortlists[t]) \subseteq IdsOf(candidates[t])
            /\ detourCalls[t] <= 2 * Len(shortlists[t])
            /\ detourCalls[t] <= 2 * cap
       /\ lastDetour.queried =>
            lastDetour.place_id \in IdsOf(shortlists[lastDetour.theme])

\* four candidates were merged, the trim kept three of them and all three
\* were priced
C20_Witness ==
  /\ IsDiscoverOK
  /\ Len(candidates["waterfalls"]) = 4
  /\ Len(ResponseLists["waterfalls"]) = 3
  /\ detourCalls["waterfalls"] = 6
  /\ calls.directions = 7

\* C21: every places call of a (sample, theme) pair is issued for the
\* strategy's entry at the loop position, which starts at the first entry
\* with no results and moves on by one, and it is issued only while the
\* running count of concatenated results is below perSampleCap
C21_StrategyInOrderWithEarlyStop ==
  /\ [](pc = "fanout" =>
          /\ qi >= 1
          /\ qi = 1 => results = <<>>
          /\ Len(results) < Max(1, Min(5, req.perSamplePerTheme)))
  /\ [][calls'.places # calls.places =>
          /\ calls'.places = calls.places + 1
          /\ themeList[ti] \in DOMAIN THEME_MAP
          /\ qi \in 1..Len(StrategyQueries(themeList[ti]))
          /\ \/ pc' = "done"
             \/ ti' = ti + 1 /\ qi' = 1 /\ results' = <<>>
             \/ /\ ti' = ti /\ qi' = qi + 1
                /\ qi' <= Len(StrategyQueries(themeList[ti]))
                /\ Len(results') < Max(1, Min(5, req.perSamplePerTheme))]_vars

\* the second category of cafes is about to be queried, with one result
\* from the first and a cap of two
C21_Witness ==
  /\ pc = "fanout" /\ ti <= Len(themeList)
  /\ themeList[ti] = "cafes" /\ qi = 2
  /\ Len(results) = 1
  /\ Max(1, Min(5, req.perSamplePerTheme)) = 2

\* a ranks strictly higher than b under (rating descending, then review
\* count descending), a missing rating counting as 0
RanksHigher(a, b) ==
  LET ra == IF a.rating = NULL THEN 0 ELSE Val(a.rating)
      rb == IF b.rating = NULL THEN 0 ELSE Val(b.rating)
  IN ra > rb \/ (ra = rb /\ a.user_ratings_total > b.user_ratings_total)

\* the cut keeps cap elements of the list (all of a shorter list) and no
\* element it drops ranks strictly higher than one it keeps
KeepsBest(list, cut, cap) ==
  /\ Len(cut) = Min(cap, Len(list))
  /\ \A i \in 1..Len(cut) : \E j \in 1..Len(list) : cut[i] = list[j]
  /\ \A j \in 1..Len(list) :
       (\A i \in 1..Len(cut) : cut[i] # list[j]) =>
          \A i \in 1..Len(cut) : ~RanksHigher(list[j], cut[i])

\* C22: the cut to perSampleCap and the trim to perThemeCap both keep the
\* best candidates by rating, then review count: no dropped candidate
\* ranks strictly higher than a kept one
C22_CutsKeepBest ==
  pc = "cutDone" =>
    /\ KeepsBest(arg.list, Val(out).kept, arg.cap)
    /\ KeepsBest(arg.list, Val(out).trimmed, arg.cap)

\* a list given worst first was cut to its best two, in order
C22_Witness ==
  /\ pc = "cutDone" /\ arg.cap = 2
  /\ arg.list = [i \in 1..3 |-> NormalizePlace(RawPlace(<<6, 2, 4>>[i]))]
  /\ Val(out).kept = [i \in 1..2 |-> NormalizePlace(RawPlace(<<4, 2>>[i]))]
  /\ Val(out).trimmed = Val(out).kept

\* C28: at most perSampleCap candidates of a pair are merged, each of them
\* among the top perSampleCap of all its results, located or not; a
\* result without a location that is kept by the cut takes a slot that no
\* located result fills (fewer candidates are merged than were kept)
C28_LocationCheckedAfterCut ==
  pc = "cutDone" =>
    LET list == arg.list
        kept == Val(out).kept
        merged == Val(out).merged
    IN /\ Len(merged) <= arg.cap
       /\ \A i \in 1..Len(merged) :
            /\ merged[i].location # NULL
            /\ Cardinality({j \in 1..Len(list) : RanksHigher(list[j], merged[i])}) < arg.cap
       /\ Len(merged) = Cardinality({i \in 1..Len(kept) : kept[i].location # NULL})
       /\ \A j \in 1..Len(list) :
            (list[j].location = NULL
               /\ Cardinality({k \in 1..Len(list) : RanksHigher(list[k], list[j])}) < arg.cap)
            => Len(merged) < Min(arg.cap, Len(list))

\* the best of two results has no location and the cap is one: nothing is
\* merged, although the other result has a location
C28_Witness ==
  /\ pc = "cutDone" /\ arg.cap = 1
  /\ arg.list = [i \in 1..2 |-> NormalizePlace(RawPlace(<<1, 3>>[i]))]
  /\ Val(out).kept = <<NormalizePlace(RawPlace(3))>>
  /\ Val(out).merged = <<>>

\* the kept results of all pairs, in processing order
RECURSIVE Flatten(_)
Flatten(lists) == IF lists = <<>> THEN <<>> ELSE Head(lists) \o Flatten(Tail(lists))

\* C23: the Map holds one entry per located provider id, and its fields
\* are those of the id's first located occurrence in processing order,
\* whatever later occurrences carry
C23_FirstSeenWins ==
  pc = "seenDone" =>
    LET all == Flatten(arg)
        map == Val(out)
        First(id) == CHOOSE j \in 1..Len(all) :
                       /\ all[j].place_id = id /\ all[j].location # NULL
                       /\ \A k \in 1..(j - 1) :
                            ~(all[k].place_id = id /\ all[k].location # NULL)
    IN /\ \A i, j \in 1..Len(map) : i # j => map[i].place_id # map[j].place_id
       /\ \A i \in 1..Len(map) :
            LET p == all[First(map[i].place_id)]
            IN /\ map[i].rating = p.rating
               /\ map[i].user_ratings_total = p.user_ratings_total
               /\ map[i].location = p.location

\* place 1 came with 10 reviews from the first pair and with 100 from the
\* second: the entry has 10
C23_Witness ==
  /\ pc = "seenDone"
  /\ Len(arg) = 2
  /\ \E i \in 1..Len(arg[1]) : arg[1][i].place_id = 1 /\ arg[1][i].user_ratings_total = 10
  /\ \E i \in 1..Len(arg[2]) : arg[2][i].place_id = 1 /\ arg[2][i].user_ratings_total = 100
  /\ \E i \in 1..Len(Val(out)) :
       Val(out)[i].place_id = 1 /\ Val(out)[i].user_ratings_total = 10

\* C24: with idx the nearest vertex and indices counted from 0, the window
\* is [max(0, idx - 6), min(n - 1, idx + 6)], so that
\* 0 <= start <= idx <= end <= n - 1, and the routing queries (issued
\* unless end <= start) go from the vertex at start to the vertex at end
C24_WindowClamped ==
  pc = "windowDone" =>
    LET n == Len(arg.path)
        at == Val(arg.place.location)
        w == Val(out).window
        idx == w.idx - 1
        start == w.startIdx - 1
        end == w.endIdx - 1
    IN /\ \A k \in 1..n :
            haversineMeters(at, arg.path[idx + 1]) <= haversineMeters(at, arg.path[k])
       /\ start = Max(0, idx - 6)
       /\ end = Min(n - 1, idx + 6)
       /\ 0 <= start /\ start <= idx /\ idx <= end /\ end <= n - 1
       /\ (Val(out).query = NULL) = (end <= start)
       /\ Val(out).query # NULL =>
            /\ Val(Val(out).query).start = arg.path[start + 1]
            /\ Val(Val(out).query).end = arg.path[end + 1]

\* a window on a path of 20 vertices has been computed: clamped at the
\* start, clamped at the end, or the full 13 vertices in the middle
C24_Witness ==
  /\ pc = "windowDone" /\ Len(arg.path) = 20
  /\ \/ Val(out).window = [idx |-> 1, startIdx |-> 1, endIdx |-> 7]
     \/ Val(out).window = [idx |-> 20, startIdx |-> 14, endIdx |-> 20]
     \/ Val(out).window = [idx |-> 11, startIdx |-> 5, endIdx |-> 17]
  /\ Val(out).query # NULL

\* the themes of the request that have a configuration
KnownCount == Cardinality({i \in 1..Len(themeList) : themeList[i] \in DOMAIN THEME_MAP})

\* C25: a discovery request never answers with partly filled shortlists.
\* A discovery response other than the success carries no body at all,
\* whatever had been collected when the request failed; the fan-out visits
\* the (sample, theme) pairs in order without leaving one out, it is left
\* for pricing only past the last theme of the last sample, and the success
\* response is sent only after every theme's list was priced, with one list
\* per requested theme and at least one places query per sample and
\* configured theme.
C25_NoPartialShortlists ==
  /\ [](req.kind = "discover" /\ pc = "done" /\ resp.status # 200
          => resp.body = NULL)
  /\ [](IsDiscoverOK
          => /\ si = Len(samples)
             /\ DOMAIN ResponseLists = ThemeSet
             /\ calls.places >= Len(samples) * KnownCount)
  /\ [][/\ (pc = "fanout" /\ pc' = "fanout")
             => \/ si' = si /\ ti' \in {ti, ti + 1}
                \/ si' = si + 1 /\ ti > Len(themeList) /\ ti' = 1
        /\ (pc = "fanout" /\ pc' = "detour")
             => si = Len(samples) /\ ti > Len(themeList)
        /\ (req.kind = "discover" /\ resp'.status = 200 /\ resp.status # 200)
             => pc = "detour" /\ ti > Len(themeList)]_vars

\* a discovery request failed after candidates had been merged
C25_Witness ==
  /\ req.kind = "discover" /\ pc = "done" /\ resp.status = 500
  /\ calls.places >= 2
  /\ \E t \in DOMAIN candidates : candidates[t] # <<>>

\* the score of a candidate whose absent detour counts as 0 minutes
ScoreNullAsZero(c) ==
  Quality(c) - 5000 * (IF c.detourMinutes = NULL THEN 0 ELSE Val(c.detourMinutes))

\* C27: in the final re-rank a candidate whose detour is absent is scored
\* with a penalty of 0, as one with a detour of 0 minutes: every shortlist
\* of the response is in the order of the re-rank (sorted, then reversed)
\* under the score that takes an absent detour for 0.  The two stay apart
\* in the response: a candidate whose pricing failed or was not possible
\* carries no detour, every other one carries a number.
C27_NullDetourScoredAsZero ==
  IsDiscoverOK =>
    \A t \in DOMAIN ResponseLists :
      /\ \A i, j \in 1..Len(ResponseLists[t]) :
           i < j => ScoreNullAsZero(ResponseLists[t][i])
                      <= ScoreNullAsZero(ResponseLists[t][j])
      /\ \A i \in 1..Len(ResponseLists[t]) :
           (ResponseLists[t][i].detourMinutes = NULL)
             <=> (Len(path) < 2 \/ <<t, ResponseLists[t][i].place_id>> \in failedPairs)

\* a response lists a candidate without detour next to one with a detour
\* of 0 minutes
C27_Witness ==
  /\ IsDiscoverOK
  /\ \E t \in DOMAIN ResponseLists :
       \E i, j \in 1..Len(ResponseLists[t]) :
         /\ ResponseLists[t][i].detourMinutes = NULL
         /\ ResponseLists[t][j].detourMinutes = Some(0)

\* the final-route state of the page is cleared
FinalCleared ==
  /\ page.finalPolyline = NULL /\ page.finalTotals = NULL
  /\ page.finalOrder = NULL /\ page.finalStopCards = <<>>

\* C29: in the planner page, once a new discover() has started, the
\* final-route state stays cleared until a buildFinal() started after that
\* discover() completes: what is shown as the final route never comes from
\* a buildFinal() that was in flight when the latest discover() started.
C29_StaleBuildIgnored ==
  pc = "page" => (page.finalStale => FinalCleared)

\* the places queries one request can issue: per sample, every type or
\* query of every configured theme
PlacesCallsBound ==
  Len(samples) * SumSeq([i \in 1..Len(themeList) |->
                           IF themeList[i] \in DOMAIN THEME_MAP
                           THEN Len(StrategyQueries(themeList[i])) ELSE 0])

\* the routing queries one request can issue: the base route and two per
\* shortlisted candidate, or the single final-route query
DirectionsCallsBound ==
  IF req.kind = "discover"
  THEN 1 + 2 * perThemeCap(req) * Cardinality(ThemeSet)
  ELSE 1

\* C30: when every provider call returns or throws, every discovery and
\* final-route request eventually sends a response; the response is one
\* of success, 400, 404 and 500 and, once sent, is not sent again or
\* changed; no provider call follows it; and the provider calls of a
\* request stay within a bound fixed by the request and its samples.
C30_OneResponseFinitelyManyCalls ==
  /\ <>(pc = "done" /\ resp.status \in {200, 400, 404, 500})
  /\ [](resp # NoResp <=> pc = "done")
  /\ [](calls.places <= PlacesCallsBound /\ calls.directions <= DirectionsCallsBound)
  /\ [][resp # NoResp => (resp' = resp /\ calls' = calls)]_vars

\* a discovery request has answered after places and pricing queries, and
\* a theme without configuration was among the requested ones
C30_Witness ==
  /\ IsDiscoverOK /\ pc = "done"
  /\ calls.places >= 2 /\ calls.directions >= 3
  /\ \E i \in 1..Len(themeList) : themeList[i] \notin DOMAIN THEME_MAP

\* the response of the request that is not running
OtherResp == Val(parked).other.resp

\* C26: discovery requests share no mutable state.  Two requests handled
\* by one process, their steps interleaved in any way, each answer what
\* they answered when they ran alone against the same provider answers.
C26_InterleavedAsAlone ==
  (parked # NULL /\ Val(parked).phase = "both") =>
    /\ pc = "done" => resp = Val(parked).alone[Val(parked).id]
    /\ Val(parked).other.pc = "done" => OtherResp = Val(parked).alone[3 - Val(parked).id]

\* both requests have answered with different, non-empty shortlists after
\* one was suspended in mid-course while the other, also in mid-course, ran
C26_Witness ==
  /\ parked # NULL /\ Val(parked).phase = "both" /\ Val(parked).mixed
  /\ pc = "done" /\ Val(parked).other.pc = "done"
  /\ resp.status = 200 /\ OtherResp.status = 200
  /\ ResponseLists["cafes"] # <<>>
  /\ Val(OtherResp.body).candidates["cafes"] # <<>>
  /\ IdsOf(ResponseLists["cafes"]) # IdsOf(Val(OtherResp.body).candidates["cafes"])
====
